---- MODULE Spec2Model ----
(***************************************************************************)
(* Model of the V2 JD-to-resume matching engine (route analyze-v2) and of  *)
(* the pure services it calls: dimension library, weight assignment,       *)
(* deterministic scoring and JD structure extraction.                      *)
(***************************************************************************)
EXTENDS Integers, Sequences, FiniteSets, TLC

VARIABLES
    arg,            \* argument of the pure function under check
    ret,            \* its return value (meaningful once called)
    called,         \* TRUE once the function has been applied to arg
    jd_analysis,    \* table jd_analysis: set of rows (jd_hash unique)
    match_results,  \* table match_results: set of rows ((jd_hash, resume_id) unique)
    all_resumes,    \* table resumes: set of resume ids
    pc,             \* per request: position in analyze_jd_v2
    req,            \* per request: locals of analyze_jd_v2
    task,           \* per request and resume: state of its score_one task
    item,           \* per request and resume: what score_one returned
    semaphore,      \* per request: value of asyncio.Semaphore(3)
    waiters,        \* per request: FIFO of tasks blocked in semaphore.acquire
    response        \* per request: the HTTP response

pure_vars == <<arg, ret, called>>
flow_vars == <<jd_analysis, match_results, all_resumes, pc, req, task, item,
               semaphore, waiters, response>>
vars == <<arg, ret, called, jd_analysis, match_results, all_resumes, pc, req,
          task, item, semaphore, waiters, response>>

----------------------------------------------------------------------------
(* Generic helpers *)

Min(a, b) == IF a < b THEN a ELSE b
Max(a, b) == IF a > b THEN a ELSE b
Abs(a) == IF a < 0 THEN 0 - a ELSE a
SeqToSet(s) == {s[i] : i \in DOMAIN s}
Take(s, n) == SubSeq(s, 1, Min(n, Len(s)))
IsInjective(s) == \A i, j \in DOMAIN s : s[i] = s[j] => i = j

\* All sequences without repetition over S, of length 0..n
RECURSIVE InjSeqs(_, _)
InjSeqs(S, n) ==
    IF n = 0 THEN {<<>>}
    ELSE LET shorter == InjSeqs(S, n - 1)
             longest == {t \in shorter : Len(t) = n - 1}
         IN  shorter \cup
             UNION {{Append(t, x) : x \in S \ SeqToSet(t)} : t \in longest}

\* All sequences over S of length 0..n
RECURSIVE BoundedSeqs(_, _)
BoundedSeqs(S, n) ==
    IF n = 0 THEN {<<>>} ELSE BoundedSeqs(S, n - 1) \cup [1..n -> S]

----------------------------------------------------------------------------
(* Dimension library *)

\* Ids of get_dimension_library(), in the order of the source list
DimensionLibrary ==
    << "experience_seniority", "core_technical_skills", "networking_protocols",
       "security_technologies", "cloud_architecture", "incident_operations",
       "compliance_governance", "certifications", "other_relevant" >>

LibraryIds == SeqToSet(DimensionLibrary)

\* An id the LLM made up: not in the library
InventedId == "invented_dimension"

\* First characters (code points) of each id: enough to order any two of them
\* the way Python orders str values
CodePoints(id) ==
    CASE id = "certifications"        -> <<99, 101, 114>>
      [] id = "cloud_architecture"    -> <<99, 108, 111>>
      [] id = "compliance_governance" -> <<99, 111, 109>>
      [] id = "core_technical_skills" -> <<99, 111, 114>>
      [] id = "experience_seniority"  -> <<101, 120, 112>>
      [] id = "incident_operations"   -> <<105, 110, 99>>
      [] id = "invented_dimension"    -> <<105, 110, 118>>
      [] id = "networking_protocols"  -> <<110, 101, 116>>
      [] id = "other_relevant"        -> <<111, 116, 104>>
      [] id = "security_technologies" -> <<115, 101, 99>>
      [] id = "A"                     -> <<65>>
      [] id = "B"                     -> <<66>>
      [] id = " "                     -> <<32>>
      [] OTHER                        -> <<>>

\* Python's str "<": first differing code point decides, a proper prefix is smaller
RECURSIVE SeqLess(_, _)
SeqLess(a, b) ==
    IF b = <<>> THEN FALSE
    ELSE IF a = <<>> THEN TRUE
    ELSE IF Head(a) # Head(b) THEN Head(a) < Head(b)
    ELSE SeqLess(Tail(a), Tail(b))

StrLess(x, y) == SeqLess(CodePoints(x), CodePoints(y))

\* sorted(list of str): stable insertion sort by StrLess
RECURSIVE InsertSorted(_, _)
InsertSorted(s, x) ==
    IF s = <<>> THEN <<x>>
    ELSE IF StrLess(x, Head(s)) THEN <<x>> \o s
    ELSE <<Head(s)>> \o InsertSorted(Tail(s), x)

RECURSIVE sorted(_)
sorted(s) == IF s = <<>> THEN <<>> ELSE InsertSorted(sorted(SubSeq(s, 1, Len(s) - 1)), s[Len(s)])

----------------------------------------------------------------------------
(* weighting_v2.assign_equal_weights *)

IsBlank(d) == d = "" \/ d = " "

assign_equal_weights_unsorted(dimension_ids) ==
    LET ids == SelectSeq(dimension_ids, LAMBDA d : ~IsBlank(d))
        n == Len(ids)
        base == IF n = 0 THEN 0 ELSE 100 \div n
        remainder == 100 - (base * n)
        first == Take(ids, remainder)
    IN  IF n = 0 THEN << >>
        ELSE [d \in SeqToSet(ids) |->
                base + Cardinality({i \in DOMAIN first : first[i] = d})]

assign_equal_weights(dimension_ids) ==
    LET ids == SelectSeq(dimension_ids, LAMBDA d : ~IsBlank(d))
        n == Len(ids)
        base == IF n = 0 THEN 0 ELSE 100 \div n
        remainder == 100 - (base * n)
        first == Take(sorted(ids), remainder)
    IN  IF n = 0 THEN << >>
        ELSE [d \in SeqToSet(ids) |->
                base + Cardinality({i \in DOMAIN first : first[i] = d})]

----------------------------------------------------------------------------
(* scoring_v2 *)

\* CONFIDENCE_MULTIPLIERS, in hundredths
CONFIDENCE_MULTIPLIERS == [high |-> 90, medium |-> 65, low |-> 35, none |-> 0]

ConfidenceLabels == {"high", "medium", "low", "none"}

\* str.strip().lower() on the labels the model feeds in
StripLower(label) ==
    CASE label = " High " -> "high"
      [] label = "MEDIUM" -> "medium"
      [] OTHER -> label

\* max_points * mult evaluated in IEEE-754 doubles: h is the exact product in
\* hundredths; the double product equals it except that for |max_points| in
\* {90, 170} (all cases with |max_points| <= 200) times 0.35 the double is just
\* below the exact half in magnitude (90 * 0.35 = 31.499999999999996)
FloatProduct(max_points, conf) ==
    [h |-> max_points * (IF conf \in DOMAIN CONFIDENCE_MULTIPLIERS
                         THEN CONFIDENCE_MULTIPLIERS[conf] ELSE 0),
     below_half |-> conf = "low" /\ Abs(max_points) \in {90, 170}]

\* Python 3 round(float): nearest integer, exact halves go to the even one
PyRound(x) ==
    LET q == x.h \div 100
        r == x.h % 100
    IN  IF r > 50 THEN q + 1
        ELSE IF r < 50 THEN q
        ELSE IF x.below_half THEN (IF x.h >= 0 THEN q ELSE q + 1)
        ELSE IF q % 2 = 0 THEN q ELSE q + 1

score_dimension_truncating(confidence, max_points) ==
    LET conf == StripLower(IF confidence = "" THEN "none" ELSE confidence)
    IN  FloatProduct(max_points, conf).h \div 100

\* A score_dimension that rounds exact halves up
score_dimension_half_up(confidence, max_points) ==
    LET conf == StripLower(IF confidence = "" THEN "none" ELSE confidence)
    IN  (FloatProduct(max_points, conf).h + 50) \div 100

score_dimension(confidence, max_points) ==
    LET conf == StripLower(IF confidence = "" THEN "none" ELSE confidence)
    IN  PyRound(FloatProduct(max_points, conf))

\* A breakdown keyed by whatever the evidence response contains
score_breakdown_by_evidence(confidence_by_dimension, weights) ==
    [dim_id \in DOMAIN confidence_by_dimension |->
        score_dimension(confidence_by_dimension[dim_id],
                        IF dim_id \in DOMAIN weights THEN weights[dim_id] ELSE 0)]

score_breakdown(confidence_by_dimension, weights) ==
    [dim_id \in DOMAIN weights |->
        score_dimension(IF dim_id \in DOMAIN confidence_by_dimension
                        THEN confidence_by_dimension[dim_id] ELSE "none",
                        weights[dim_id])]

\* sum(f.values()) for a mapping f with integer values
RECURSIVE SumValues(_)
SumValues(f) ==
    IF DOMAIN f = {} THEN 0
    ELSE LET k == CHOOSE x \in DOMAIN f : TRUE
         IN  f[k] + SumValues([x \in DOMAIN f \ {k} |-> f[x]])

score_total_unclamped(breakdown) == SumValues(breakdown)

score_total(breakdown) == Max(0, Min(100, SumValues(breakdown)))

----------------------------------------------------------------------------
(* explanation_v2 *)

\* Python's None
None == "None"

\* A dict is the sequence of its (key, value) items in insertion order
DictGet(items, key, default) ==
    IF \E i \in DOMAIN items : items[i][1] = key
    THEN items[CHOOSE i \in DOMAIN items : items[i][1] = key][2]
    ELSE default

\* Order of the sort key (kv[1], kv[0]): by contribution, then by id; with
\* by_id FALSE, of the key kv[1] alone
ItemLess(a, b, by_id) == a[2] < b[2] \/ (by_id /\ a[2] = b[2] /\ StrLess(a[1], b[1]))

\* sorted(items, key=...): stable insertion of x behind the items not above it
RECURSIVE InsertItem(_, _, _)
InsertItem(s, x, by_id) ==
    IF s = <<>> THEN <<x>>
    ELSE IF ItemLess(x, Head(s), by_id) THEN <<x>> \o s
    ELSE <<Head(s)>> \o InsertItem(Tail(s), x, by_id)

RECURSIVE SortItems(_, _)
SortItems(items, by_id) ==
    IF items = <<>> THEN <<>>
    ELSE InsertItem(SortItems(SubSeq(items, 1, Len(items) - 1), by_id),
                    items[Len(items)], by_id)

\* sorted(..., reverse=True): descending, equal keys keep their order
RECURSIVE InsertItemDesc(_, _, _)
InsertItemDesc(s, x, by_id) ==
    IF s = <<>> THEN <<x>>
    ELSE IF ItemLess(Head(s), x, by_id) THEN <<x>> \o s
    ELSE <<Head(s)>> \o InsertItemDesc(Tail(s), x, by_id)

RECURSIVE SortItemsDesc(_, _)
SortItemsDesc(items, by_id) ==
    IF items = <<>> THEN <<>>
    ELSE InsertItemDesc(SortItemsDesc(SubSeq(items, 1, Len(items) - 1), by_id),
                        items[Len(items)], by_id)

\* A ranking by contribution alone: equal contributions stay in dict order
_top_dimensions_by_value(breakdown, top_n) ==
    LET items == SortItemsDesc(breakdown, FALSE)
        top == Take(items, top_n)
    IN  [i \in DOMAIN top |-> top[i][1]]

\* _top_dimensions: the ids of the top_n items by (contribution, id), descending
_top_dimensions(breakdown, top_n) ==
    LET items == SortItemsDesc(breakdown, TRUE)
        top == Take(items, top_n)
    IN  [i \in DOMAIN top |-> top[i][1]]

\* The highest item taken for the lowest
_lowest_dimension_reversed(breakdown) ==
    IF breakdown = <<>> THEN None
    ELSE SortItemsDesc(breakdown, TRUE)[1][1]

\* _lowest_dimension: the id of the first item by (contribution, id), ascending
_lowest_dimension(breakdown) ==
    IF breakdown = <<>> THEN None
    ELSE SortItems(breakdown, TRUE)[1][1]

\* sep.join(parts), as the sequence of its pieces
RECURSIVE JoinWith(_, _)
JoinWith(parts, sep) ==
    IF Len(parts) <= 1 THEN parts
    ELSE <<Head(parts), sep>> \o JoinWith(Tail(parts), sep)

\* build_explanation: the two sentences, each as the sequence of the pieces
\* its f-string puts together
build_explanation(total_score, breakdown, dimension_labels, matched_skills, missing_skills) ==
    LET top_dims == _top_dimensions(breakdown, 2)
        top_labels == [i \in DOMAIN top_dims |->
                          DictGet(dimension_labels, top_dims[i], top_dims[i])]
        joined == JoinWith(SelectSeq(top_labels, LAMBDA lbl : lbl # ""), " and ")
        strengths_part == IF joined = <<>> THEN <<"key areas">> ELSE joined
        matched_part == IF matched_skills # <<>>
                        THEN <<" (matched: ">> \o JoinWith(Take(matched_skills, 3), ", ")
                             \o <<")">>
                        ELSE <<>>
        gap_skill == IF missing_skills # <<>> THEN missing_skills[1] ELSE None
        low_dim == _lowest_dimension(breakdown)
        low_label == IF low_dim # None /\ low_dim # ""
                     THEN DictGet(dimension_labels, low_dim, low_dim) ELSE None
    IN  [sentence1 |-> <<"Scored ", total_score, "/100 with strongest alignment in ">>
                       \o strengths_part \o matched_part \o <<".">>,
         sentence2 |->
            IF gap_skill # None /\ gap_skill # ""
            THEN <<"Main gap is ", gap_skill,
                   "; improving this could raise the fit for the role.">>
            ELSE IF low_label # None /\ low_label # ""
            THEN <<"Main gap is weaker alignment in ", low_label,
                   "; more direct evidence could improve the score.">>
            ELSE <<"No major gaps detected from the available resume evidence.">>]

----------------------------------------------------------------------------
(* openai_service.extract_jd_structure_v2 *)

must_include == << "experience_seniority", "core_technical_skills" >>

\* prioritized[:5]
MaxSelectedDimensions == 5

\* Outcomes of the structure-extraction LLM call other than a parsed response
StructureFailures == {"no_client", "transport_error", "bad_json", "schema_invalid"}

\* Keep the first occurrence of every id
RECURSIVE Dedupe(_, _)
Dedupe(s, seen) ==
    IF s = <<>> THEN <<>>
    ELSE IF Head(s) \in seen THEN Dedupe(Tail(s), seen)
    ELSE <<Head(s)>> \o Dedupe(Tail(s), seen \cup {Head(s)})

\* The guardrails without lines 463-472: the deduplicated list is truncated as
\* the LLM ordered it
extract_jd_structure_v2_unprioritized(result, allowed_ids) ==
    IF result.kind # "ok" \/ allowed_ids = {}
    THEN [raised |-> TRUE, selected_dimensions |-> <<>>, min_experience_years |-> 0]
    ELSE
    LET existing_ids == SeqToSet(result.ids)
        ins1 == IF must_include[1] \notin existing_ids /\ must_include[1] \in allowed_ids
                THEN <<must_include[1]>> \o result.ids ELSE result.ids
        ins2 == IF must_include[2] \notin existing_ids /\ must_include[2] \in allowed_ids
                THEN <<must_include[2]>> \o ins1 ELSE ins1
        selected == Take(Dedupe(ins2, {}), MaxSelectedDimensions)
        unknown == {i \in SeqToSet(selected) : i \notin allowed_ids}
    IN  IF unknown # {}
        THEN [raised |-> TRUE, selected_dimensions |-> <<>>, min_experience_years |-> 0]
        ELSE [raised |-> FALSE, selected_dimensions |-> selected,
              min_experience_years |-> result.min_experience_years]

\* result: what the LLM call produced, [kind |-> "ok", ids |-> list of the
\* dimension_id values of selected_dimensions, min_experience_years |-> number]
\* or [kind |-> a failure].  Returns [raised, selected_dimensions,
\* min_experience_years].
extract_jd_structure_v2(result, allowed_ids) ==
    IF result.kind # "ok" \/ allowed_ids = {}
    THEN [raised |-> TRUE, selected_dimensions |-> <<>>, min_experience_years |-> 0]
    ELSE
    LET existing_ids == SeqToSet(result.ids)
        ins1 == IF must_include[1] \notin existing_ids /\ must_include[1] \in allowed_ids
                THEN <<must_include[1]>> \o result.ids ELSE result.ids
        ins2 == IF must_include[2] \notin existing_ids /\ must_include[2] \in allowed_ids
                THEN <<must_include[2]>> \o ins1 ELSE ins1
        deduped == Dedupe(ins2, {})
        prioritized ==
            SelectSeq(must_include, LAMBDA d : d \in SeqToSet(deduped))
            \o SelectSeq(deduped, LAMBDA d : d \notin SeqToSet(must_include))
        selected == Take(prioritized, MaxSelectedDimensions)
        unknown == {i \in SeqToSet(selected) : i \notin allowed_ids}
    IN  IF unknown # {}
        THEN [raised |-> TRUE, selected_dimensions |-> <<>>, min_experience_years |-> 0]
        ELSE [raised |-> FALSE, selected_dimensions |-> selected,
              min_experience_years |-> result.min_experience_years]

----------------------------------------------------------------------------
(* openai_service.extract_resume_evidence_v2 and schemas.jd_v2 *)

\* Outcomes of the evidence LLM call other than a parsed response
EvidenceFailures == {"no_client", "transport_error", "bad_json"}

\* ResumeEvidenceV2.model_validate: every confidence must be one of the
\* Confidence literal values and every key a non-blank string.
\* result: [kind |-> "ok", evidence_by_dimension |-> map id -> confidence] or
\* [kind |-> a failure].  Returns [raised, evidence_by_dimension].
extract_resume_evidence_v2(result) ==
    IF result.kind # "ok"
    THEN [raised |-> TRUE, evidence_by_dimension |-> <<>>]
    ELSE LET ev == result.evidence_by_dimension
         IN  IF \E k \in DOMAIN ev : IsBlank(k) \/ ev[k] \notin ConfidenceLabels
             THEN [raised |-> TRUE, evidence_by_dimension |-> <<>>]
             ELSE [raised |-> FALSE, evidence_by_dimension |-> ev]

----------------------------------------------------------------------------
(* routes/jd_analysis.py: analyze_jd_v2 *)

JD_MATCH_ENGINE_VERSION == "v2.4"

\* Tag of rows written by an earlier deployment of the engine
StaleEngineVersion == "v2.3"

\* asyncio.Semaphore(3)
SemaphoreSlots == 3

\* Phase-1 shortlist cut-offs
RelaxBelow == 5
RelaxCap == 15
ShortlistCap == 25

\* " ".join(jd_text.split()): the words of the text, single-spaced.
\* A text is a sequence of tokens, " " being one whitespace character.
RECURSIVE JoinWords(_)
JoinWords(words) ==
    IF Len(words) <= 1 THEN words
    ELSE <<Head(words), " ">> \o JoinWords(Tail(words))

NormalizeJdText(jd_text) == JoinWords(SelectSeq(jd_text, LAMBDA t : t # " "))

\* hashlib.sha256(...).hexdigest(), taken to be injective: a digest is
\* represented by the value it was computed from
Sha256(x) == [sha256 |-> x]

\* A serialisation that keeps the keys in the order of selected_dim_ids
WeightsJsonInListOrder(selected_dim_ids, weights) ==
    LET dims == Dedupe(selected_dim_ids, {})
    IN  [i \in DOMAIN dims |-> <<dims[i], weights[dims[i]]>>]

\* json.dumps({k: weights.get(k) for k in dims_sorted}, sort_keys=True)
WeightsJson(selected_dim_ids, weights) ==
    LET dims_sorted == sorted(Dedupe(selected_dim_ids, {}))
    IN  [i \in DOMAIN dims_sorted |-> <<dims_sorted[i], weights[dims_sorted[i]]>>]

JdStructureHash(jd_hash, selected_dim_ids, weights) ==
    Sha256(<<jd_hash, WeightsJson(selected_dim_ids, weights)>>)

\* Lines 556-666 for one run: from the JD text and the outcome of the structure
\* extraction to the weights and the structure hash
StructureHashOfRun(jd_text, result) ==
    LET jd_hash == Sha256(NormalizeJdText(jd_text))
        jd_struct == extract_jd_structure_v2(result, LibraryIds)
        selected_dim_ids == jd_struct.selected_dimensions
        weights == assign_equal_weights(selected_dim_ids)
    IN  [raised |-> jd_struct.raised,
         weights |-> weights,
         jd_structure_hash |-> JdStructureHash(jd_hash, selected_dim_ids, weights)]

\* Resume rows: experience_years, and traditional_score standing for the value
\* calculate_traditional_score gives the resume against the JD requirements
ResumeRow(id) ==
    [id |-> id,
     experience_years |-> CASE id = 1 -> 6 [] id = 2 -> 1 [] id = 3 -> 8
                            [] id = 4 -> 3 [] id = 5 -> 5 [] OTHER -> id % 10,
     traditional_score |-> CASE id = 1 -> 70 [] id = 2 -> 35 [] id = 3 -> 45
                             [] id = 4 -> 55 [] id = 5 -> 45 [] OTHER -> (id * 37) % 101]

calculate_traditional_score(resume_id) == ResumeRow(resume_id).traditional_score

\* list.sort(key=..., reverse=True): stable, so equal keys keep their order.
\* keys[i] is the sort key of s[i]; the result is s reordered.
RECURSIVE InsertIndex(_, _, _)
InsertIndex(p, i, keys) ==
    IF p = <<>> THEN <<i>>
    ELSE IF keys[i] > keys[Head(p)] THEN <<i>> \o p
    ELSE <<Head(p)>> \o InsertIndex(Tail(p), i, keys)

RECURSIVE SortedIndices(_, _)
SortedIndices(n, keys) ==
    IF n = 0 THEN <<>> ELSE InsertIndex(SortedIndices(n - 1, keys), n, keys)

SortDesc(s, keys) ==
    LET p == SortedIndices(Len(s), keys) IN [i \in DOMAIN s |-> s[p[i]]]

\* The rows of a table of resume ids, in id order
RECURSIVE IdsInOrder(_)
IdsInOrder(S) ==
    IF S = {} THEN <<>>
    ELSE LET m == CHOOSE x \in S : \A y \in S : x <= y
         IN  <<m>> \o IdsInOrder(S \ {m})

\* A shortlist that is sorted but never truncated
Phase1ShortlistUncapped(resumes, min_experience_years, min_score) ==
    LET kept == SelectSeq(IdsInOrder(resumes), LAMBDA r :
                    /\ ~(min_experience_years > 0
                         /\ ResumeRow(r).experience_years < min_experience_years)
                    /\ calculate_traditional_score(r) >= min_score)
    IN  SortDesc(kept, [i \in DOMAIN kept |-> calculate_traditional_score(kept[i])])

\* Phase 1 of analyze_jd_v2: hard experience filter, min_score filter, sort,
\* truncate.  Returns the shortlisted resume ids.
Phase1Shortlist(resumes, min_experience_years, min_score) ==
    LET kept == SelectSeq(IdsInOrder(resumes), LAMBDA r :
                    /\ ~(min_experience_years > 0
                         /\ ResumeRow(r).experience_years < min_experience_years)
                    /\ calculate_traditional_score(r) >= min_score)
        prelim == SortDesc(kept, [i \in DOMAIN kept |-> calculate_traditional_score(kept[i])])
    IN  IF Len(prelim) < RelaxBelow THEN Take(prelim, RelaxCap)
        ELSE Take(prelim, Min(Len(prelim), ShortlistCap))

\* A scorer that lets a dimension with evidence skills count as at least "low"
ScoreFreshBoostedBySkills(evidence_by_dim, weights) ==
    LET confidence_by_dim ==
            [dim_id \in DOMAIN evidence_by_dim |->
                IF evidence_by_dim[dim_id].confidence = "none"
                   /\ evidence_by_dim[dim_id].evidence_skills # <<>>
                THEN "low" ELSE evidence_by_dim[dim_id].confidence]
        breakdown == score_breakdown(confidence_by_dim, weights)
    IN  [total_score |-> score_total(breakdown),
         score_breakdown |-> breakdown,
         evidence_skills |-> UNION {SeqToSet(evidence_by_dim[d].evidence_skills) :
                                        d \in DOMAIN evidence_by_dim}]

\* Lines 829-856 of score_one: from the validated evidence (per dimension a
\* confidence, evidence_skills and evidence_text) to the scores; evidence_skills
\* of the result is the display-only collection of the skills named
ScoreFresh(evidence_by_dim, weights) ==
    LET confidence_by_dim ==
            [dim_id \in DOMAIN evidence_by_dim |-> evidence_by_dim[dim_id].confidence]
        breakdown == score_breakdown(confidence_by_dim, weights)
    IN  [total_score |-> score_total(breakdown),
         score_breakdown |-> breakdown,
         evidence_skills |-> UNION {SeqToSet(evidence_by_dim[d].evidence_skills) :
                                        d \in DOMAIN evidence_by_dim}]

----------------------------------------------------------------------------
(* Inputs of the request flow *)

Requests == {1, 2}

\* Resumes stored in the two scenarios
RaceResumes == 2
BatchResumes == 4

ResumeIds == 1..Max(RaceResumes, BatchResumes)

\* JD texts: the second differs from the first in whitespace only
JdTextA == <<"aws", " ", "k8s">>
JdTextASpaced == <<" ", "aws", " ", " ", "k8s">>
JdTextB == <<"python">>
MinScores == {0, 50, 80}
TopNs == {1, 10}

OkStructure(ids, years) == [kind |-> "ok", ids |-> ids, min_experience_years |-> years]
FailedCall(kind) == [kind |-> kind, ids |-> <<>>, min_experience_years |-> 0]

StructureResponses ==
    { OkStructure(<<"networking_protocols">>, 0),
      OkStructure(<<"core_technical_skills", "experience_seniority">>, 5),
      OkStructure(<<InventedId, "networking_protocols">>, 0) }
    \cup {FailedCall(kind) : kind \in StructureFailures}

OkEvidence(ev) == [kind |-> "ok", evidence_by_dimension |-> ev]
FailedEvidence(kind) == [kind |-> kind, evidence_by_dimension |-> <<>>]

EvidenceResponses ==
    { OkEvidence([d \in LibraryIds |-> "high"]),
      OkEvidence([d \in {"experience_seniority", InventedId} |->
                    IF d = InventedId THEN "high" ELSE "medium"]),
      OkEvidence([d \in LibraryIds |-> IF d = "core_technical_skills" THEN "strong" ELSE "low"]),
      FailedEvidence("transport_error") }

NoItem == [resume_id |-> 0, total_score |-> 0, score_breakdown |-> <<>>, cached |-> FALSE]

NoRequest ==
    [jd_text |-> <<>>, min_score |-> 0, top_n |-> 1, jd_hash |-> Sha256(<<>>),
     selected_dim_ids |-> <<>>, min_experience_years |-> 0, weights |-> <<>>,
     jd_structure_hash |-> Sha256(<<>>), prelim |-> <<>>, cached_map |-> <<>>]

NoResponse == [status |-> 0, results |-> <<>>]

\* A match_results row as analyze_jd_v2 writes it
MatchResult(jd_hash, resume_id, match_score, breakdown, engine_version) ==
    [jd_hash |-> jd_hash, resume_id |-> resume_id, match_score |-> match_score,
     factor_breakdown |-> [engine_version |-> engine_version,
                           score_breakdown |-> breakdown]]

\* The structure the first StructureResponses entry resolves to
SeedDims == <<"experience_seniority", "core_technical_skills", "networking_protocols">>
SeedHash ==
    JdStructureHash(Sha256(NormalizeJdText(JdTextA)), SeedDims,
                    assign_equal_weights(SeedDims))

\* A row left by an earlier engine version under a key the running engine computes
StaleRow == MatchResult(SeedHash, 1, 99, [legacy_factor |-> 99], StaleEngineVersion)

\* A row the running engine wrote earlier for resume 2 (every dimension "high")
SeedRow ==
    LET b == score_breakdown([d \in SeqToSet(SeedDims) |-> "high"],
                             assign_equal_weights(SeedDims))
    IN  MatchResult(SeedHash, 2, score_total(b), b, JD_MATCH_ENGINE_VERSION)

----------------------------------------------------------------------------
(* analyze_jd_v2, one action per stretch of code between two awaits *)

ErrorResponse(status) == [status |-> status, results |-> <<>>]

\* Lines 556-567: hash the JD text and look for its jd_analysis row
SelectJD(q) ==
    /\ pc[q] = "start"
    /\ LET h == Sha256(NormalizeJdText(req[q].jd_text))
       IN  /\ req' = [req EXCEPT ![q].jd_hash = h]
           /\ pc' = [pc EXCEPT ![q] =
                       IF \E row \in jd_analysis : row.jd_hash = h
                       THEN "extract" ELSE "insert_jd"]
    /\ UNCHANGED <<pure_vars, jd_analysis, match_results, all_resumes, task, item,
                   semaphore, waiters, response>>

\* Lines 566-582: insert the canonical jd_analysis row and commit; the unique
\* index on jd_hash rejects a second row, and the error reaches the handler
\* of line 990
InsertJD(q) ==
    /\ pc[q] = "insert_jd"
    /\ IF \E row \in jd_analysis : row.jd_hash = req[q].jd_hash
       THEN /\ pc' = [pc EXCEPT ![q] = "error"]
            /\ response' = [response EXCEPT ![q] = ErrorResponse(500)]
            /\ UNCHANGED jd_analysis
       ELSE /\ jd_analysis' = jd_analysis \cup
                  {[jd_hash |-> req[q].jd_hash, required_experience |-> 0]}
            /\ pc' = [pc EXCEPT ![q] = "extract"]
            /\ UNCHANGED response
    /\ UNCHANGED <<pure_vars, match_results, all_resumes, req, task, item,
                   semaphore, waiters>>

\* A handler that logs the extraction failure and carries on without a structure
PcAfterExtractionIgnoringFailure(raised) == "phase1"

\* Lines 587-605 and 988-992: an exception of the structure extraction is
\* re-raised and ends the request in the handler of line 990
PcAfterExtraction(raised) == IF raised THEN "error" ELSE "phase1"

\* Lines 587-666: structure extraction, update of the jd_analysis row,
\* weights and structure hash
ExtractStructure(q) ==
    /\ pc[q] = "extract"
    /\ \E result \in StructureResponses :
          LET jd_struct == extract_jd_structure_v2(result, LibraryIds)
              selected_dim_ids == jd_struct.selected_dimensions
              weights == assign_equal_weights(selected_dim_ids)
          IN  IF jd_struct.raised
              THEN /\ pc' = [pc EXCEPT ![q] = PcAfterExtraction(TRUE)]
                   /\ response' = [response EXCEPT ![q] =
                          IF PcAfterExtraction(TRUE) = "error"
                          THEN ErrorResponse(500) ELSE @]
                   /\ UNCHANGED <<req, jd_analysis>>
              ELSE /\ req' = [req EXCEPT
                          ![q].selected_dim_ids = selected_dim_ids,
                          ![q].min_experience_years = jd_struct.min_experience_years,
                          ![q].weights = weights,
                          ![q].jd_structure_hash =
                              JdStructureHash(req[q].jd_hash, selected_dim_ids, weights)]
                   /\ jd_analysis' =
                          {IF row.jd_hash = req[q].jd_hash
                           THEN [row EXCEPT !.required_experience =
                                                jd_struct.min_experience_years]
                           ELSE row : row \in jd_analysis}
                   /\ pc' = [pc EXCEPT ![q] = PcAfterExtraction(FALSE)]
                   /\ UNCHANGED response
    /\ UNCHANGED <<pure_vars, match_results, all_resumes, task, item,
                   semaphore, waiters>>

\* Lines 678-731: fetch the resumes and shortlist them
Phase1(q) ==
    /\ pc[q] = "phase1"
    /\ req' = [req EXCEPT ![q].prelim =
                  Phase1Shortlist(all_resumes, req[q].min_experience_years,
                                  req[q].min_score)]
    /\ pc' = [pc EXCEPT ![q] = "lookup"]
    /\ UNCHANGED <<pure_vars, jd_analysis, match_results, all_resumes, task, item,
                   semaphore, waiters, response>>

\* Lines 746-749 without the engine_version test
CachedRowsAnyVersion(rows, jd_structure_hash, prelim_resume_ids) ==
    {m \in rows : /\ m.jd_hash = jd_structure_hash
                  /\ m.resume_id \in prelim_resume_ids}

\* Lines 736-749: rows of the shortlist under the structure hash, accepted
\* only when produced by the current engine version
CachedRows(rows, jd_structure_hash, prelim_resume_ids) ==
    {m \in rows : /\ m.jd_hash = jd_structure_hash
                  /\ m.resume_id \in prelim_resume_ids
                  /\ m.factor_breakdown.engine_version = JD_MATCH_ENGINE_VERSION}

\* Lines 736-765 and 905: cache lookup, semaphore, one task per shortlisted resume
CacheLookup(q) ==
    /\ pc[q] = "lookup"
    /\ LET ids == SeqToSet(req[q].prelim)
           hits == CachedRows(match_results, req[q].jd_structure_hash, ids)
       IN  /\ req' = [req EXCEPT ![q].cached_map =
                        [r \in {m.resume_id : m \in hits} |->
                            CHOOSE m \in hits : m.resume_id = r]]
           /\ task' = [task EXCEPT ![q] =
                        [r \in ResumeIds |-> IF r \in ids THEN "pending" ELSE "none"]]
    /\ semaphore' = [semaphore EXCEPT ![q] = SemaphoreSlots]
    /\ pc' = [pc EXCEPT ![q] = "scoring"]
    /\ UNCHANGED <<pure_vars, jd_analysis, match_results, all_resumes, item,
                   waiters, response>>

\* Tasks run in the order gather() created them, up to their first await
EarlierStarted(q, r) ==
    \A i, j \in DOMAIN req[q].prelim :
        (req[q].prelim[j] = r /\ i < j) => task[q][req[q].prelim[i]] # "pending"

\* A score_one that goes to the LLM whether or not the resume is in cached_map
CacheMissAlways(cached_map, r) == TRUE

\* Lines 782-784: score_one answers from cached_map when the resume is in it
CacheMiss(cached_map, r) == r \notin DOMAIN cached_map

\* Lines 767-826: score_one up to the evidence call: answer from the cache,
\* or take a slot, or queue for one
TaskStart(q, r) ==
    /\ pc[q] = "scoring"
    /\ task[q][r] = "pending"
    /\ EarlierStarted(q, r)
    /\ IF ~CacheMiss(req[q].cached_map, r)
       THEN LET cached == req[q].cached_map[r]
            IN  /\ item' = [item EXCEPT ![q][r] =
                      [resume_id |-> r, total_score |-> cached.match_score,
                       score_breakdown |-> cached.factor_breakdown.score_breakdown,
                       cached |-> TRUE]]
                /\ task' = [task EXCEPT ![q][r] = "done"]
                /\ UNCHANGED <<semaphore, waiters>>
       ELSE IF semaphore[q] > 0 /\ waiters[q] = <<>>
       THEN /\ semaphore' = [semaphore EXCEPT ![q] = @ - 1]
            /\ task' = [task EXCEPT ![q][r] = "calling"]
            /\ UNCHANGED <<item, waiters>>
       ELSE /\ waiters' = [waiters EXCEPT ![q] = Append(@, r)]
            /\ task' = [task EXCEPT ![q][r] = "waiting"]
            /\ UNCHANGED <<item, semaphore>>
    /\ UNCHANGED <<pure_vars, jd_analysis, match_results, all_resumes, pc, req,
                   response>>

\* Semaphore.acquire completing for the longest-waiting task
TaskAcquire(q) ==
    /\ pc[q] = "scoring"
    /\ waiters[q] # <<>>
    /\ semaphore[q] > 0
    /\ semaphore' = [semaphore EXCEPT ![q] = @ - 1]
    /\ task' = [task EXCEPT ![q][Head(waiters[q])] = "calling"]
    /\ waiters' = [waiters EXCEPT ![q] = Tail(@)]
    /\ UNCHANGED <<pure_vars, jd_analysis, match_results, all_resumes, pc, req,
                   item, response>>

\* A release that is skipped when the call raised
SemaphoreExitOnSuccessOnly(value, raised) == IF raised THEN value ELSE value + 1

\* Line 826, leaving "async with semaphore": the slot is released whether the
\* body returned or raised
SemaphoreExit(value, raised) == value + 1

\* Lines 826-903: the evidence call returns or raises; the slot is released
\* either way; on success the resume is scored
EvidenceReturn(q, r) ==
    /\ pc[q] = "scoring"
    /\ task[q][r] = "calling"
    /\ \E result \in EvidenceResponses :
          LET evidence == extract_resume_evidence_v2(result)
              evidence_by_dim ==
                  [d \in DOMAIN evidence.evidence_by_dimension |->
                      [confidence |-> evidence.evidence_by_dimension[d],
                       evidence_skills |-> <<>>, evidence_text |-> ""]]
              scored == ScoreFresh(evidence_by_dim, req[q].weights)
              breakdown == scored.score_breakdown
              total == scored.total_score
          IN  /\ semaphore' = [semaphore EXCEPT ![q] = SemaphoreExit(@, evidence.raised)]
              /\ IF evidence.raised
                 THEN /\ task' = [task EXCEPT ![q][r] = "failed"]
                      /\ UNCHANGED item
                 ELSE /\ task' = [task EXCEPT ![q][r] = "done"]
                      /\ item' = [item EXCEPT ![q][r] =
                             [resume_id |-> r, total_score |-> total,
                              score_breakdown |-> breakdown, cached |-> FALSE]]
    /\ UNCHANGED <<pure_vars, jd_analysis, match_results, all_resumes, pc, req,
                   waiters, response>>

\* A gather() that returns as soon as one task has raised
GatherReturnsOnFirstException(q) ==
    \/ \A r \in SeqToSet(req[q].prelim) : task[q][r] \in {"done", "failed"}
    \/ \E r \in SeqToSet(req[q].prelim) : task[q][r] = "failed"

\* Line 906, asyncio.gather(*tasks, return_exceptions=True): returns once every
\* task has returned or raised
GatherReturns(q) ==
    \A r \in SeqToSet(req[q].prelim) : task[q][r] \in {"done", "failed"}

\* Lines 908-915: tasks that raised are skipped; items below min_score are dropped
Results(q) ==
    LET kept == SelectSeq(req[q].prelim, LAMBDA r :
                    task[q][r] = "done" /\ item[q][r].total_score >= req[q].min_score)
    IN  [i \in DOMAIN kept |-> item[q][kept[i]]]

\* Lines 916-918: only newly computed results are persisted
ToPersist(q) == SelectSeq(Results(q), LAMBDA it : ~it.cached)

\* The first top_n results in shortlist order, without the sort of line 958
RankedResultsUnsorted(q) ==
    LET ranked == Take(Results(q), req[q].top_n)
    IN  [i \in DOMAIN ranked |->
            [resume_id |-> ranked[i].resume_id, total_score |-> ranked[i].total_score,
             score_breakdown |-> ranked[i].score_breakdown]]

\* Lines 958-961: sort by total_score descending, keep top_n, drop "_cached"
RankedResults(q) ==
    LET results == Results(q)
        ranked == Take(SortDesc(results, [i \in DOMAIN results |-> results[i].total_score]),
                       req[q].top_n)
    IN  [i \in DOMAIN ranked |->
            [resume_id |-> ranked[i].resume_id, total_score |-> ranked[i].total_score,
             score_breakdown |-> ranked[i].score_breakdown]]

\* A commit failure that reaches the handler of line 990
StatusAfterCommitPropagating(conflict) == IF conflict THEN 500 ELSE 200

\* Lines 952-956: a failed commit is rolled back and otherwise ignored
StatusAfterCommit(conflict) == 200

\* Lines 906-986: collect the task results, persist the new rows in one
\* transaction (the unique index on (jd_hash, resume_id) fails the whole commit),
\* rank and respond
Finish(q) ==
    /\ pc[q] = "scoring"
    /\ GatherReturns(q)
    /\ LET to_persist == ToPersist(q)
           new_rows == {MatchResult(req[q].jd_structure_hash, to_persist[i].resume_id,
                                    to_persist[i].total_score,
                                    to_persist[i].score_breakdown,
                                    JD_MATCH_ENGINE_VERSION) : i \in DOMAIN to_persist}
           conflict == \E n \in new_rows, m \in match_results :
                          n.jd_hash = m.jd_hash /\ n.resume_id = m.resume_id
           status == StatusAfterCommit(conflict)
       IN  /\ match_results' = IF conflict THEN match_results
                               ELSE match_results \cup new_rows
           /\ response' = [response EXCEPT ![q] =
                            IF status = 200
                            THEN [status |-> 200, results |-> RankedResults(q)]
                            ELSE ErrorResponse(status)]
           /\ pc' = [pc EXCEPT ![q] = IF status = 200 THEN "done" ELSE "error"]
    /\ UNCHANGED <<pure_vars, jd_analysis, all_resumes, req, task, item,
                   semaphore, waiters>>

----------------------------------------------------------------------------
(* Specification of the request flow *)

FlowOff ==
    /\ jd_analysis = {}
    /\ match_results = {}
    /\ all_resumes = {}
    /\ pc = [q \in Requests |-> "off"]
    /\ req = [q \in Requests |-> NoRequest]
    /\ task = [q \in Requests |-> [r \in ResumeIds |-> "none"]]
    /\ item = [q \in Requests |-> [r \in ResumeIds |-> NoItem]]
    /\ semaphore = [q \in Requests |-> SemaphoreSlots]
    /\ waiters = [q \in Requests |-> <<>>]
    /\ response = [q \in Requests |-> NoResponse]

PureOff ==
    /\ arg = <<>>
    /\ ret = <<>>
    /\ called = TRUE

\* A request as received: JD text and query parameters
Received(jd_text, min_score, top_n) ==
    [NoRequest EXCEPT !.jd_text = jd_text, !.min_score = min_score, !.top_n = top_n]

\* Two concurrent requests over a small resume table
InitRace ==
    /\ all_resumes = 1..RaceResumes
    /\ match_results \in {{}, {StaleRow}}
    /\ pc = [q \in Requests |-> "start"]
    /\ \E text \in {JdTextASpaced, JdTextB} :
          req = [q \in Requests |->
                    IF q = 1 THEN Received(JdTextA, 0, 10) ELSE Received(text, 0, 10)]

\* One request over a resume table larger than the semaphore
InitBatch ==
    /\ all_resumes = 1..BatchResumes
    /\ match_results \in {{}, {StaleRow}, {SeedRow}}
    /\ pc = [q \in Requests |-> IF q = 1 THEN "start" ELSE "off"]
    /\ \E ms \in MinScores, tn \in TopNs :
          req = [q \in Requests |->
                    IF q = 1 THEN Received(JdTextA, ms, tn) ELSE NoRequest]

Init ==
    /\ PureOff
    /\ jd_analysis = {}
    /\ task = [q \in Requests |-> [r \in ResumeIds |-> "none"]]
    /\ item = [q \in Requests |-> [r \in ResumeIds |-> NoItem]]
    /\ semaphore = [q \in Requests |-> SemaphoreSlots]
    /\ waiters = [q \in Requests |-> <<>>]
    /\ response = [q \in Requests |-> NoResponse]
    /\ (InitRace \/ InitBatch)

Next ==
    \/ \E q \in Requests : SelectJD(q)
    \/ \E q \in Requests : InsertJD(q)
    \/ \E q \in Requests : ExtractStructure(q)
    \/ \E q \in Requests : Phase1(q)
    \/ \E q \in Requests : CacheLookup(q)
    \/ \E q \in Requests, r \in ResumeIds : TaskStart(q, r)
    \/ \E q \in Requests : TaskAcquire(q)
    \/ \E q \in Requests, r \in ResumeIds : EvidenceReturn(q, r)
    \/ \E q \in Requests : Finish(q)

Spec == Init /\ [][Next]_vars

\* The handler of request q can run: it is at one of its sequential steps,
\* or awaiting gather() whose tasks have all returned or raised
HandlerReady(q) ==
    \/ pc[q] \in {"start", "insert_jd", "extract", "phase1", "lookup"}
    \/ pc[q] = "scoring" /\ GatherReturns(q)

\* Any step of the handler of request q: the steps of Next that change pc[q]
\* (SelectJD, InsertJD, ExtractStructure, Phase1, CacheLookup, Finish)
HandlerStep(q) ==
    /\ HandlerReady(q)
    /\ \E p \in {"insert_jd", "extract", "phase1", "lookup", "scoring", "done", "error"} \ {pc[q]} :
          pc' = [pc EXCEPT ![q] = p]

\* The request flow under the scheduling of the asyncio event loop: a
\* coroutine that can run is eventually run (the handler, a task starting, a
\* free slot handed to the longest waiter), and every evidence call in flight
\* eventually returns or raises
SpecFair ==
    /\ Spec
    /\ \A q \in Requests :
          /\ WF_pc(HandlerStep(q))
          /\ WF_vars(TaskAcquire(q))
          /\ \A r \in ResumeIds :
                /\ WF_vars(TaskStart(q, r))
                /\ WF_vars(EvidenceReturn(q, r))

----------------------------------------------------------------------------
(* Specifications applying one pure function to bounded inputs *)

\* Longest id list given to assign_equal_weights
MaxIds == 6
\* Largest weight given to score_dimension on its own
MaxWeight == 100
\* Longest selected_dimensions list in an LLM structure response
MaxReturned == 5

WeightInputIds == SeqToSet(Take(DimensionLibrary, 7)) \cup {" "}

InitWeights ==
    /\ FlowOff
    /\ arg \in InjSeqs(WeightInputIds, MaxIds)
    /\ ret = <<>>
    /\ called = FALSE

CallAssignEqualWeights ==
    /\ ~called
    /\ ret' = assign_equal_weights(arg)
    /\ called' = TRUE
    /\ UNCHANGED <<arg, flow_vars>>

SpecWeights == InitWeights /\ [][CallAssignEqualWeights]_vars

ConfidenceInputs == ConfidenceLabels \cup {" High ", "MEDIUM", "strong", ""}
SampleWeights == {-40, 0, 40, 60, 100, 170}

ConfidenceMaps(dims, labels) == UNION {[S -> labels] : S \in SUBSET dims}

ScoreInput(weights, confidence_by_dimension) ==
    [weights |-> weights, confidence_by_dimension |-> confidence_by_dimension]

InitScore ==
    /\ FlowOff
    /\ \/ \E w \in 0..MaxWeight, c \in ConfidenceMaps({"A"}, ConfidenceInputs) :
             arg = ScoreInput([d \in {"A"} |-> w], c)
       \/ \E w \in [{"A", "B"} -> SampleWeights],
             c \in ConfidenceMaps({"A", "B"}, ConfidenceLabels) :
             arg = ScoreInput(w, c)
    /\ ret = <<>>
    /\ called = FALSE

CallScore ==
    /\ ~called
    /\ LET breakdown == score_breakdown(arg.confidence_by_dimension, arg.weights)
       IN  ret' = [breakdown |-> breakdown, total |-> score_total(breakdown)]
    /\ called' = TRUE
    /\ UNCHANGED <<arg, flow_vars>>

SpecScore == InitScore /\ [][CallScore]_vars

ExtractInputIds ==
    { "experience_seniority", "core_technical_skills", "networking_protocols",
      "security_technologies", "cloud_architecture", "incident_operations",
      InventedId }

InitExtract ==
    /\ FlowOff
    /\ \/ \E ids \in BoundedSeqs(ExtractInputIds, MaxReturned) : arg = OkStructure(ids, 0)
       \/ \E kind \in StructureFailures : arg = FailedCall(kind)
    /\ ret = <<>>
    /\ called = FALSE

CallExtractJdStructure ==
    /\ ~called
    /\ ret' = extract_jd_structure_v2(arg, LibraryIds)
    /\ called' = TRUE
    /\ UNCHANGED <<arg, flow_vars>>

SpecExtract == InitExtract /\ [][CallExtractJdStructure]_vars

\* Longest selected_dimensions list of the two runs whose hashes are compared
MaxHashDims == 3

HashInputIds == {"networking_protocols", "security_technologies", "core_technical_skills"}

\* A run: its JD text and what the structure extraction LLM returned for it
HashRuns ==
    {[jd_text |-> text,
      result |-> [kind |-> "ok", ids |-> ids, min_experience_years |-> years,
                  jd_role |-> role]] :
        text \in {JdTextA, JdTextASpaced, JdTextB},
        ids \in InjSeqs(HashInputIds, MaxHashDims),
        years \in {0, 5},
        role \in {"SRE", "Network Engineer"}}

InitHash ==
    /\ FlowOff
    /\ arg \in HashRuns \X HashRuns
    /\ ret = <<>>
    /\ called = FALSE

CallStructureHash ==
    /\ ~called
    /\ ret' = <<StructureHashOfRun(arg[1].jd_text, arg[1].result),
                StructureHashOfRun(arg[2].jd_text, arg[2].result)>>
    /\ called' = TRUE
    /\ UNCHANGED <<arg, flow_vars>>

SpecHash == InitHash /\ [][CallStructureHash]_vars

\* DimensionEvidenceV2 values: a confidence with display-only skills and text
DimensionEvidence ==
    [confidence : ConfidenceLabels,
     evidence_skills : {<<>>, <<"aws", "k8s">>},
     evidence_text : {"", "ran the AWS migration"}]

\* The selected dimensions of the structure the two responses are scored under
EvidenceDims == <<"experience_seniority", "core_technical_skills">>

InitEvidence ==
    /\ FlowOff
    /\ arg \in [SeqToSet(EvidenceDims) -> DimensionEvidence]
               \X [SeqToSet(EvidenceDims) -> DimensionEvidence]
    /\ ret = <<>>
    /\ called = FALSE

CallScoreFresh ==
    /\ ~called
    /\ ret' = <<ScoreFresh(arg[1], assign_equal_weights(EvidenceDims)),
                ScoreFresh(arg[2], assign_equal_weights(EvidenceDims))>>
    /\ called' = TRUE
    /\ UNCHANGED <<arg, flow_vars>>

SpecEvidence == InitEvidence /\ [][CallScoreFresh]_vars

\* Lines 826-852 of score_one for one LLM response: the evidence call with its
\* schema validation, then the scoring
ScoreOneFromResponse(result, weights) ==
    LET evidence == extract_resume_evidence_v2(result)
        evidence_by_dim ==
            [d \in DOMAIN evidence.evidence_by_dimension |->
                [confidence |-> evidence.evidence_by_dimension[d],
                 evidence_skills |-> <<>>, evidence_text |-> ""]]
        scored == ScoreFresh(evidence_by_dim, weights)
    IN  [raised |-> evidence.raised,
         total_score |-> IF evidence.raised THEN 0 ELSE scored.total_score,
         score_breakdown |-> IF evidence.raised THEN <<>> ELSE scored.score_breakdown]

\* Evidence responses for a request whose selected dimensions are EvidenceDims:
\* any subset of these and of an id outside the request, with labels inside
\* and outside the closed set
ContractResponses ==
    {OkEvidence(ev) : ev \in ConfidenceMaps(SeqToSet(EvidenceDims) \cup {InventedId},
                                            ConfidenceLabels \cup {"strong"})}

InitContract ==
    /\ FlowOff
    /\ arg \in ContractResponses
    /\ ret = <<>>
    /\ called = FALSE

CallScoreOne ==
    /\ ~called
    /\ ret' = ScoreOneFromResponse(arg, assign_equal_weights(EvidenceDims))
    /\ called' = TRUE
    /\ UNCHANGED <<arg, flow_vars>>

SpecContract == InitContract /\ [][CallScoreOne]_vars

\* Selections analyze_jd_v2 can receive from extract_jd_structure_v2: 1 to
\* MaxSelectedDimensions distinct library ids, here runs of the library order
SelectedIdLists ==
    UNION {{SubSeq(DimensionLibrary, k, k + n - 1) :
                k \in 1..(Len(DimensionLibrary) - n + 1)} :
           n \in 1..MaxSelectedDimensions}

InitTotal ==
    /\ FlowOff
    /\ \E ids \in SelectedIdLists :
          \E c \in ConfidenceMaps(SeqToSet(ids), ConfidenceLabels) :
              arg = [dimension_ids |-> ids, confidence_by_dimension |-> c]
    /\ ret = <<>>
    /\ called = FALSE

\* analyze_jd_v2 lines 652 and 855-856: weights of the selection, then the
\* breakdown and the total of one resume
CallScoreSelection ==
    /\ ~called
    /\ LET weights == assign_equal_weights(arg.dimension_ids)
           breakdown == score_breakdown(arg.confidence_by_dimension, weights)
       IN  ret' = [weights |-> weights, breakdown |-> breakdown,
                   total |-> score_total(breakdown)]
    /\ called' = TRUE
    /\ UNCHANGED <<arg, flow_vars>>

SpecTotal == InitTotal /\ [][CallScoreSelection]_vars

\* Longest matched_skills list given to build_explanation
MaxSkills == 4

ExplainDims == {"cloud_architecture", "networking_protocols", "security_technologies"}

\* Contributions of a dimension in the breakdowns explained
Contributions == {0, 17, 30}

\* Breakdown dicts: every insertion order of every subset of ExplainDims
ExplainBreakdowns ==
    UNION {{[i \in DOMAIN ids |-> <<ids[i], v[i]>>] : v \in [DOMAIN ids -> Contributions]} :
              ids \in InjSeqs(ExplainDims, 3)}

\* dim_labels of the route, one with a key missing and one with an empty label
ExplainLabels ==
    { << <<"cloud_architecture", "Cloud & Architecture">>,
         <<"networking_protocols", "Networking & Protocols">>,
         <<"security_technologies", "Security Technologies">> >>,
      << <<"cloud_architecture", "Cloud & Architecture">>,
         <<"security_technologies", "Security Technologies">> >>,
      << <<"cloud_architecture", "">>,
         <<"networking_protocols", "Networking & Protocols">>,
         <<"security_technologies", "Security Technologies">> >> }

SkillPool == <<"aws", "k8s", "sql", "go", "rust">>

RECURSIVE SumItems(_)
SumItems(items) == IF items = <<>> THEN 0 ELSE Head(items)[2] + SumItems(Tail(items))

InitExplain ==
    /\ FlowOff
    /\ \E breakdown \in ExplainBreakdowns, labels \in ExplainLabels,
          n \in 0..MaxSkills, missing \in BoundedSeqs({"", "terraform"}, 2) :
          arg = [total_score |-> SumItems(breakdown), breakdown |-> breakdown,
                 dimension_labels |-> labels, matched_skills |-> Take(SkillPool, n),
                 missing_skills |-> missing]
    /\ ret = <<>>
    /\ called = FALSE

CallBuildExplanation ==
    /\ ~called
    /\ ret' = build_explanation(arg.total_score, arg.breakdown, arg.dimension_labels,
                                arg.matched_skills, arg.missing_skills)
    /\ called' = TRUE
    /\ UNCHANGED <<arg, flow_vars>>

SpecExplain == InitExplain /\ [][CallBuildExplanation]_vars

\* Largest resume table given to Phase 1 on its own
MaxFetched == 27

InitPhase1 ==
    /\ FlowOff
    /\ \E n \in 0..MaxFetched, years \in {0, 5, 9}, ms \in MinScores :
          arg = [all_resumes |-> 1..n, min_experience_years |-> years, min_score |-> ms]
    /\ ret = <<>>
    /\ called = FALSE

CallPhase1 ==
    /\ ~called
    /\ ret' = Phase1Shortlist(arg.all_resumes, arg.min_experience_years, arg.min_score)
    /\ called' = TRUE
    /\ UNCHANGED <<arg, flow_vars>>

SpecPhase1 == InitPhase1 /\ [][CallPhase1]_vars

----------------------------------------------------------------------------
(* Properties *)

CallingTasks(q) == {r \in ResumeIds : task[q][r] = "calling"}

\* C1: the cache lookup of analyze-v2 only accepts rows tagged with the running
\* engine version; a resume answered from the cache carries the score of such a
\* row, and a resume whose only row under the structure hash has another
\* version is scored afresh (not answered from that row).
C1_CacheVersionIsolation ==
    \A q \in Requests :
        /\ \A r \in DOMAIN req[q].cached_map :
              LET m == req[q].cached_map[r]
              IN  /\ m.factor_breakdown.engine_version = JD_MATCH_ENGINE_VERSION
                  /\ m.jd_hash = req[q].jd_structure_hash
                  /\ m.resume_id = r
        /\ \A r \in ResumeIds :
              task[q][r] = "done" =>
                /\ item[q][r].cached =>
                      /\ r \in DOMAIN req[q].cached_map
                      /\ item[q][r].total_score = req[q].cached_map[r].match_score
                /\ (\E m \in match_results :
                        /\ m.jd_hash = req[q].jd_structure_hash
                        /\ m.resume_id = r
                        /\ m.factor_breakdown.engine_version # JD_MATCH_ENGINE_VERSION)
                   => ~item[q][r].cached

\* A resume with a stale row under the request's structure hash has been scored
\* through the evidence extractor
C1_Witness ==
    \E q \in Requests :
        /\ StaleRow \in match_results
        /\ req[q].jd_structure_hash = StaleRow.jd_hash
        /\ task[q][1] = "done"
        /\ ~item[q][1].cached
        /\ item[q][1].total_score # StaleRow.match_score

\* C2: extract_jd_structure_v2 raises whenever the LLM response contains a
\* dimension_id outside the Dimension Library, at any position of the list.
C2_UnknownIdAlwaysRaises ==
    (called /\ arg.kind = "ok" /\ \E i \in DOMAIN arg.ids : arg.ids[i] \notin LibraryIds)
        => ret.raised

\* C3: for n distinct non-blank ids in any order, assign_equal_weights gives
\* each id 100 div n, plus 1 to exactly the (100 mod n) lexicographically
\* first ids; the weights sum to 100.
C3_EqualWeights ==
    (called /\ arg # <<>> /\ IsInjective(arg) /\ \A i \in DOMAIN arg : ~IsBlank(arg[i])) =>
        LET S == SeqToSet(arg)
            n == Len(arg)
            rank(d) == Cardinality({e \in S : StrLess(e, d)})
        IN  /\ ret = [d \in S |-> (100 \div n) + (IF rank(d) < 100 % n THEN 1 ELSE 0)]
            /\ SumValues(ret) = 100

\* Six ids given out of lexicographic order: a later, smaller id got the extra point
C3_Witness ==
    /\ called
    /\ Len(arg) = 6
    /\ \A i \in DOMAIN arg : ~IsBlank(arg[i])
    /\ \E i, j \in DOMAIN arg :
          i < j /\ StrLess(arg[j], arg[i]) /\ ret[arg[j]] = 17 /\ ret[arg[i]] = 16

\* C4: for weights 0..100 and the four confidence labels, score_dimension is
\* weight x multiplier (0.90, 0.65, 0.35, 0.00) rounded to a nearest integer,
\* exact halves included; weights {A:60, B:40} with {A:high, B:medium} give
\* A=54, B=26, total 80.
C4_RoundedContribution ==
    called =>
        /\ \A d \in DOMAIN arg.weights :
              (/\ arg.weights[d] \in 0..100
               /\ d \in DOMAIN arg.confidence_by_dimension
               /\ arg.confidence_by_dimension[d] \in ConfidenceLabels)
              => Abs(100 * ret.breakdown[d]
                     - arg.weights[d] * CONFIDENCE_MULTIPLIERS[arg.confidence_by_dimension[d]])
                 <= 50
        /\ (/\ arg.weights = [A |-> 60, B |-> 40]
            /\ arg.confidence_by_dimension = [A |-> "high", B |-> "medium"])
           => (ret.breakdown = [A |-> 54, B |-> 26] /\ ret.total = 80)

\* An exact half: weight 50 with medium is 32.5 and scores 32
C4_Witness ==
    /\ called
    /\ arg.weights = [A |-> 50]
    /\ arg.confidence_by_dimension = [A |-> "medium"]
    /\ ret.breakdown = [A |-> 32]

\* The (dimension id -> weight) mapping a structure hash was computed from
WeightsOfHash(jd_structure_hash) ==
    LET weights_json == jd_structure_hash.sha256[2]
    IN  [d \in {weights_json[i][1] : i \in DOMAIN weights_json} |->
            weights_json[CHOOSE i \in DOMAIN weights_json : weights_json[i][1] = d][2]]

WellFormedBreakdown(breakdown, dim_ids, weights) ==
    /\ DOMAIN breakdown = dim_ids
    /\ DOMAIN breakdown \subseteq LibraryIds
    /\ \A d \in DOMAIN breakdown : breakdown[d] \in 0..weights[d]

\* C5: every score breakdown analyze-v2 returns or persists has exactly the
\* selected dimension ids of the JD structure as keys, all of them library ids,
\* and every value is an integer in [0, weight of the dimension], whatever ids
\* and labels the evidence response carried.
C5_BreakdownWellFormed ==
    /\ \A q \in Requests :
          pc[q] = "done" =>
            \A i \in DOMAIN response[q].results :
                WellFormedBreakdown(response[q].results[i].score_breakdown,
                                    SeqToSet(req[q].selected_dim_ids), req[q].weights)
    /\ \A m \in match_results :
          m.factor_breakdown.engine_version = JD_MATCH_ENGINE_VERSION =>
            WellFormedBreakdown(m.factor_breakdown.score_breakdown,
                                DOMAIN WeightsOfHash(m.jd_hash),
                                WeightsOfHash(m.jd_hash))

\* A result scored from an evidence response that named an invented id and
\* left selected dimensions out was returned and persisted
C5_Witness ==
    \E q \in Requests, r \in ResumeIds :
        /\ pc[q] = "done"
        /\ task[q][r] = "done"
        /\ ~item[q][r].cached
        /\ item[q][r].total_score > 0
        /\ item[q][r].total_score = item[q][r].score_breakdown["experience_seniority"]
        /\ \E i \in DOMAIN response[q].results : response[q].results[i].resume_id = r
        /\ \E m \in match_results :
              /\ m.resume_id = r
              /\ m.jd_hash = req[q].jd_structure_hash
              /\ m.factor_breakdown.score_breakdown = item[q][r].score_breakdown

\* C6: score_total is the sum of the contributions clamped to [0, 100]: always
\* in 0..100, and equal to the plain sum when that sum lies in [0, 100].
C6_TotalClamped ==
    called =>
        LET total == SumValues(ret.breakdown)
        IN  /\ ret.total \in 0..100
            /\ (total \in 0..100 => ret.total = total)
            /\ (total > 100 => ret.total = 100)
            /\ (total < 0 => ret.total = 0)

\* A sum above 100 was clamped
C6_Witness ==
    /\ called
    /\ SumValues(ret.breakdown) > 100
    /\ ret.total = 100

\* C7: a shortlisted resume whose evidence extraction failed is still part of
\* the batch outcome, with its Phase-1 keyword score as total score (top_n
\* permitting), and the request does not fail.
C7_FailedResumeKeepsKeywordScore ==
    \A q \in Requests :
        \A r \in SeqToSet(req[q].prelim) :
            (task[q][r] = "failed" /\ pc[q] # "scoring") =>
                /\ pc[q] = "done"
                /\ response[q].status = 200
                /\ Len(req[q].prelim) <= req[q].top_n =>
                      \E i \in DOMAIN response[q].results :
                          /\ response[q].results[i].resume_id = r
                          /\ response[q].results[i].total_score =
                                 calculate_traditional_score(r)

\* C8: a request whose cache insert loses the uniqueness race still completes
\* with status 200 and returns the ranked results it holds in memory; leaving
\* the scoring phase never ends in an error response.
C8_CommitFailureTolerated ==
    [][\A q \in Requests :
          (pc[q] = "scoring" /\ pc'[q] # "scoring") =>
              /\ pc'[q] = "done"
              /\ response'[q] = [status |-> 200, results |-> RankedResults(q)]]_vars

\* Both requests missed the cache for the same (structure hash, resume), both
\* scored it afresh, one row exists and both got their results
C8_Witness ==
    /\ pc[1] = "done"
    /\ pc[2] = "done"
    /\ req[1].jd_structure_hash = req[2].jd_structure_hash
    /\ response[1].status = 200
    /\ response[2].status = 200
    /\ \E r \in ResumeIds :
          /\ task[1][r] = "done" /\ ~item[1][r].cached
          /\ task[2][r] = "done" /\ ~item[2][r].cached
          /\ \E i \in DOMAIN response[1].results : response[1].results[i].resume_id = r
          /\ \E i \in DOMAIN response[2].results : response[2].results[i].resume_id = r
          /\ Cardinality({m \in match_results :
                             /\ m.jd_hash = req[1].jd_structure_hash
                             /\ m.resume_id = r
                             /\ m.factor_breakdown.engine_version
                                    = JD_MATCH_ENGINE_VERSION}) = 1

\* C9: within one request at most 3 evidence calls are outstanding: the number
\* of held slots is in 0..3 and equals the number of in-flight calls, a slot
\* being released when the call returns and when it raises.
C9_SemaphoreBound ==
    \A q \in Requests :
        /\ semaphore[q] \in 0..3
        /\ Cardinality(CallingTasks(q)) = 3 - semaphore[q]
        /\ Cardinality(CallingTasks(q)) <= 3
        /\ \A r \in ResumeIds : task[q][r] = "waiting" =>
              \E i \in DOMAIN waiters[q] : waiters[q][i] = r

\* All slots are held again after a call raised and released its slot
C9_Witness ==
    \E q \in Requests :
        /\ semaphore[q] = 0
        /\ Cardinality(CallingTasks(q)) = 3
        /\ \E r \in ResumeIds : task[q][r] = "failed"

\* C10: a task that fails changes no sibling task's state or result, and the
\* batch is assembled only once every shortlisted resume's task has returned
\* or raised.
C10_SiblingsUnaffected ==
    [][\A q \in Requests :
          /\ \A r \in ResumeIds :
                (task[q][r] = "calling" /\ task'[q][r] = "failed") =>
                    \A o \in ResumeIds \ {r} :
                        task'[q][o] = task[q][o] /\ item'[q][o] = item[q][o]
          /\ (pc[q] = "scoring" /\ pc'[q] # "scoring") =>
                /\ \A r \in SeqToSet(req[q].prelim) : task[q][r] \in {"done", "failed"}
                /\ \A r \in ResumeIds : task'[q][r] = task[q][r]]_vars

\* A batch was assembled with one task failed and a sibling's fresh score returned
C10_Witness ==
    \E q \in Requests, r \in ResumeIds, o \in ResumeIds :
        /\ pc[q] = "done"
        /\ task[q][r] = "failed"
        /\ task[q][o] = "done"
        /\ ~item[q][o].cached
        /\ \E i \in DOMAIN response[q].results : response[q].results[i].resume_id = o

\* C11: when the structure extraction of a request fails, the request ends
\* with an error response and scores no resume: it creates no scoring task,
\* issues no evidence call and inserts no match-result row, then or later.
C11_ExtractionFailureHalts ==
    [][\A q \in Requests :
          /\ (pc[q] = "extract" /\ pc'[q] # "extract" /\ req'[q].selected_dim_ids = <<>>) =>
                /\ pc'[q] = "error"
                /\ response'[q] = ErrorResponse(500)
                /\ match_results' = match_results
          /\ pc[q] = "error" =>
                /\ pc'[q] = "error"
                /\ response'[q] = response[q]
                /\ \A r \in ResumeIds : task[q][r] = "none" /\ task'[q][r] = "none"
                /\ semaphore'[q] = SemaphoreSlots
          /\ match_results' # match_results =>
                \E p \in Requests :
                    /\ pc[p] = "scoring"
                    /\ req[p].selected_dim_ids # <<>>
                    /\ pc'[p] = "done"]_vars

\* One request failed at the structure extraction while the other one, on the
\* same JD text, went on to score resumes and persist rows
C11_Witness ==
    \E q, p \in Requests :
        /\ pc[q] = "error"
        /\ req[q].selected_dim_ids = <<>>
        /\ response[q].status = 500
        /\ \A r \in ResumeIds : task[q][r] = "none"
        /\ pc[p] = "done"
        /\ req[p].jd_hash = req[q].jd_hash
        /\ \E m \in match_results : m.jd_hash = req[p].jd_structure_hash

\* Position of the first occurrence of x in s
FirstIndex(s, x) == CHOOSE i \in DOMAIN s : s[i] = x /\ \A j \in 1..(i - 1) : s[j] # x

\* C12: a structure returned by extract_jd_structure_v2 has no repeated
\* dimension id, at most 5 entries, experience_seniority first and
\* core_technical_skills second, only library ids, and after the anchors the
\* other dimensions in the order of their first occurrence in the LLM's list
\* (none kept while an earlier one is cut).
C12_StructureInvariants ==
    (called /\ arg.kind = "ok" /\ ~ret.raised) =>
        LET sel == ret.selected_dimensions
            anchors == {"experience_seniority", "core_technical_skills"}
        IN  /\ IsInjective(sel)
            /\ Len(sel) <= 5
            /\ Len(sel) >= 2
            /\ sel[1] = "experience_seniority"
            /\ sel[2] = "core_technical_skills"
            /\ SeqToSet(sel) \subseteq LibraryIds
            /\ \A i \in 3..Len(sel) : sel[i] \in SeqToSet(arg.ids) \ anchors
            /\ \A i, j \in 3..Len(sel) :
                  i < j => FirstIndex(arg.ids, sel[i]) < FirstIndex(arg.ids, sel[j])
            /\ \A i \in 3..Len(sel) : \A x \in SeqToSet(arg.ids) \ anchors :
                  FirstIndex(arg.ids, x) < FirstIndex(arg.ids, sel[i])
                      => x \in SeqToSet(sel)

\* A list that names a dimension twice, puts an anchor last and leaves the
\* other anchor out was deduplicated, reordered and returned
C12_Witness ==
    /\ called
    /\ arg.kind = "ok"
    /\ ~ret.raised
    /\ Len(arg.ids) = 5
    /\ ~IsInjective(arg.ids)
    /\ arg.ids[5] = "core_technical_skills"
    /\ "experience_seniority" \notin SeqToSet(arg.ids)
    /\ Len(ret.selected_dimensions) = 5

\* The words of a JD text, whitespace left out
WordsOf(jd_text) == SelectSeq(jd_text, LAMBDA t : t # " ")

\* C13: two runs compute the same structure hash exactly when their JD texts
\* are equal up to whitespace and their (dimension id -> weight) mappings are
\* equal, whatever the order of the LLM's list, the role and the minimum
\* experience of the two structures.
C13_StructureHashIff ==
    called =>
        (ret[1].jd_structure_hash = ret[2].jd_structure_hash
            <=> /\ WordsOf(arg[1].jd_text) = WordsOf(arg[2].jd_text)
                /\ ret[1].weights = ret[2].weights)

\* Two runs that differ in whitespace, in the order of the LLM's list, in role
\* and in minimum experience got the same hash
C13_Witness ==
    /\ called
    /\ arg[1].jd_text # arg[2].jd_text
    /\ Len(arg[1].result.ids) = 3
    /\ arg[1].result.ids # arg[2].result.ids
    /\ arg[1].result.jd_role # arg[2].result.jd_role
    /\ arg[1].result.min_experience_years # arg[2].result.min_experience_years
    /\ ret[1].jd_structure_hash = ret[2].jd_structure_hash

\* C14: once a request has returned after scoring resume r afresh under
\* structure hash h (cache miss, evidence call succeeded), a current-version
\* match-result row for (h, r) exists, whatever min_score and the total score
\* are, so that a later request under h answers r from the cache.
C14_ScoredPairIsCached ==
    \A q \in Requests :
        pc[q] = "done" =>
            \A r \in ResumeIds :
                (task[q][r] = "done" /\ ~item[q][r].cached) =>
                    \E m \in match_results :
                        /\ m.jd_hash = req[q].jd_structure_hash
                        /\ m.resume_id = r
                        /\ m.factor_breakdown.engine_version = JD_MATCH_ENGINE_VERSION

\* C15: analyze-v2 never modifies or deletes a match-result row, and a request
\* that re-scores (above min_score) a pair whose only row was written by an
\* older engine version leaves a current-version row for the pair next to
\* the old one.
C15_NewRowPerEngineVersion ==
    [][/\ match_results \subseteq match_results'
       /\ \A q \in Requests :
             (pc[q] = "scoring" /\ pc'[q] = "done") =>
                 \A r \in ResumeIds :
                     (/\ task[q][r] = "done"
                      /\ ~item[q][r].cached
                      /\ item[q][r].total_score >= req[q].min_score
                      /\ \E m \in match_results :
                            /\ m.jd_hash = req[q].jd_structure_hash
                            /\ m.resume_id = r
                            /\ m.factor_breakdown.engine_version # JD_MATCH_ENGINE_VERSION)
                     => \E m \in match_results' :
                            /\ m.jd_hash = req[q].jd_structure_hash
                            /\ m.resume_id = r
                            /\ m.factor_breakdown.engine_version = JD_MATCH_ENGINE_VERSION]_vars

\* Resumes that pass the experience hard filter and the min_score threshold
PassingPhase1(q) ==
    {r \in all_resumes :
        /\ ~(req[q].min_experience_years > 0
             /\ ResumeRow(r).experience_years < req[q].min_experience_years)
        /\ calculate_traditional_score(r) >= req[q].min_score}

Shortlisted(q) == pc[q] \in {"lookup", "scoring", "done"}

\* C16: the Phase-1 shortlist excludes resumes below a positive minimum
\* experience, except that when fewer than 5 resumes pass the filters the
\* shortlist is the top-scoring resumes among all fetched ones, whatever their
\* experience and score, at most 15 of them.
C16_RelaxedShortlist ==
    \A q \in Requests :
        Shortlisted(q) =>
            LET prelim == SeqToSet(req[q].prelim)
            IN  IF Cardinality(PassingPhase1(q)) >= 5
                THEN prelim \subseteq PassingPhase1(q)
                ELSE /\ prelim \subseteq all_resumes
                     /\ Cardinality(prelim) = Min(15, Cardinality(all_resumes))
                     /\ \A r \in prelim, o \in all_resumes \ prelim :
                           calculate_traditional_score(r) >= calculate_traditional_score(o)

\* C17: a request that extracted a JD structure and fetched at least one
\* resume answers with a non-empty ranked list, also when no resume reaches
\* min_score or the experience threshold (no scoring task having failed).
C17_NonEmptyResult ==
    \A q \in Requests :
        (/\ pc[q] = "done"
         /\ all_resumes # {}
         /\ \A r \in ResumeIds : task[q][r] # "failed")
        => (response[q].status = 200 /\ response[q].results # <<>>)

\* Resumes of the request whose task returned a result at or above min_score
PassedMinScore(q) ==
    {r \in SeqToSet(req[q].prelim) :
        task[q][r] = "done" /\ item[q][r].total_score >= req[q].min_score}

\* C18: no result is exposed before every scoring task of the request has
\* returned or raised; the ranked list is then in non-increasing order of
\* total_score and holds the min(top_n, number passed) highest-scoring
\* results among those at or above min_score, each with its task's score.
C18_RankedAfterAllTasks ==
    \A q \in Requests :
        /\ pc[q] # "done" => response[q].results = <<>>
        /\ pc[q] = "done" =>
              LET results == response[q].results
                  listed == {results[i].resume_id : i \in DOMAIN results}
              IN  /\ \A r \in SeqToSet(req[q].prelim) : task[q][r] \in {"done", "failed"}
                  /\ \A i, j \in DOMAIN results :
                        i < j => /\ results[i].total_score >= results[j].total_score
                                 /\ results[i].resume_id # results[j].resume_id
                  /\ Len(results) = Min(req[q].top_n, Cardinality(PassedMinScore(q)))
                  /\ listed \subseteq PassedMinScore(q)
                  /\ \A i \in DOMAIN results :
                        results[i].total_score = item[q][results[i].resume_id].total_score
                  /\ \A r \in listed, o \in PassedMinScore(q) \ listed :
                        item[q][r].total_score >= item[q][o].total_score

\* With top_n = 1 the one returned result is a resume that stood later in the
\* shortlist than a lower-scoring one, and another task had failed
C18_Witness ==
    \E q \in Requests :
        /\ pc[q] = "done"
        /\ req[q].top_n = 1
        /\ Len(response[q].results) = 1
        /\ \E r \in ResumeIds : task[q][r] = "failed"
        /\ \E i, j \in DOMAIN req[q].prelim :
              /\ i < j
              /\ {req[q].prelim[i], req[q].prelim[j]} \subseteq PassedMinScore(q)
              /\ item[q][req[q].prelim[i]].total_score < item[q][req[q].prelim[j]].total_score
              /\ response[q].results[1].resume_id = req[q].prelim[j]

\* C19: for a fixed structure and weight map, two evidence responses with the
\* same confidence label on every selected dimension give the same total
\* score and score breakdown, whatever their evidence_skills and evidence_text.
C19_SkillsDoNotAffectScore ==
    called =>
        ((\A d \in SeqToSet(EvidenceDims) : arg[1][d].confidence = arg[2][d].confidence)
            => /\ ret[1].total_score = ret[2].total_score
               /\ ret[1].score_breakdown = ret[2].score_breakdown)

\* Same labels (one of them "none"), different skills and texts: the scores
\* agree while the displayed evidence skills differ
C19_Witness ==
    /\ called
    /\ \A d \in SeqToSet(EvidenceDims) : arg[1][d].confidence = arg[2][d].confidence
    /\ arg[1]["core_technical_skills"].confidence = "none"
    /\ arg[1]["experience_seniority"].confidence = "medium"
    /\ arg[1]["core_technical_skills"].evidence_skills # <<>>
    /\ arg[2]["core_technical_skills"].evidence_skills = <<>>
    /\ arg[1]["experience_seniority"].evidence_text # arg[2]["experience_seniority"].evidence_text
    /\ ret[1].evidence_skills # ret[2].evidence_skills
    /\ ret[1].total_score = 32
    /\ ret[2].total_score = 32

\* C20: an evidence response is scored only if it carries exactly one label of
\* {high, medium, low, none} for every selected dimension and names no other
\* dimension id; a response that omits a selected dimension, adds an unknown
\* id or uses another label fails the resume.
C20_EvidenceContractEnforced ==
    called =>
        LET ev == arg.evidence_by_dimension
            conforming == /\ DOMAIN ev = SeqToSet(EvidenceDims)
                          /\ \A d \in DOMAIN ev : ev[d] \in ConfidenceLabels
        IN  ~conforming => ret.raised

\* The id of the breakdown with the lowest contribution, the lowest id among
\* equal contributions
LowestOf(breakdown) ==
    LET lowest == CHOOSE a \in SeqToSet(breakdown) :
                    \A b \in SeqToSet(breakdown) \ {a} :
                        a[2] < b[2] \/ (a[2] = b[2] /\ StrLess(a[1], b[1]))
    IN  lowest[1]

\* The label a sentence uses for a dimension: its entry in dimension_labels,
\* the id itself when it has none
LabelOf(dimension_labels, d) == DictGet(dimension_labels, d, d)

GapSkillSentence(skill) ==
    <<"Main gap is ", skill, "; improving this could raise the fit for the role.">>

LowDimensionSentence(label) ==
    <<"Main gap is weaker alignment in ", label,
      "; more direct evidence could improve the score.">>

NoGapSentence == <<"No major gaps detected from the available resume evidence.">>

RankOf(breakdown, d, smaller_first) ==
    LET v == DictGet(breakdown, d, 0)
    IN  Cardinality({i \in DOMAIN breakdown :
            \/ breakdown[i][2] > v
            \/ /\ breakdown[i][2] = v
               /\ IF smaller_first THEN StrLess(breakdown[i][1], d)
                                   ELSE StrLess(d, breakdown[i][1])})

\* The min(2, n) dimensions ranked first, in rank order
TopTwo(breakdown, smaller_first) ==
    LET n == Min(2, Len(breakdown))
    IN  [k \in 1..n |->
            breakdown[CHOOSE i \in DOMAIN breakdown :
                          RankOf(breakdown, breakdown[i][1], smaller_first) = k - 1][1]]

\* The first sentence that names the given dimensions and matched skills
FirstSentence(total_score, dims, dimension_labels, matched_skills) ==
    LET labels == SelectSeq([k \in DOMAIN dims |-> LabelOf(dimension_labels, dims[k])],
                            LAMBDA lbl : lbl # "")
        shown == SubSeq(matched_skills, 1, Min(3, Len(matched_skills)))
    IN  <<"Scored ", total_score, "/100 with strongest alignment in ">>
        \o (IF labels = <<>> THEN <<"key areas">> ELSE JoinWith(labels, " and "))
        \o (IF shown = <<>> THEN <<>>
            ELSE <<" (matched: ">> \o JoinWith(shown, ", ") \o <<")">>)
        \o <<".">>

\* C22: the first sentence names the min(2, n) dimensions with the highest
\* contributions, equal contributions ordered by id with the lexicographically
\* smaller id first, and lists at most the first 3 matched skills, whatever
\* the order of the breakdown mapping (dimensions with a non-empty label).
C22_FirstSentenceSmallerIdFirst ==
    (called /\ \A i \in DOMAIN arg.breakdown :
                  LabelOf(arg.dimension_labels, arg.breakdown[i][1]) # "") =>
        ret.sentence1 = FirstSentence(arg.total_score, TopTwo(arg.breakdown, TRUE),
                                      arg.dimension_labels, arg.matched_skills)

\* C22 as amended: the first sentence names the non-empty labels of the
\* min(2, n) dimensions with the highest contributions, equal contributions
\* ordered by id with the lexicographically larger id first ('key areas' when
\* there is no label to name), and lists at most the first 3 matched skills,
\* whatever the order of the breakdown mapping.
C22_FirstSentenceLargerIdFirst ==
    called =>
        ret.sentence1 = FirstSentence(arg.total_score, TopTwo(arg.breakdown, FALSE),
                                      arg.dimension_labels, arg.matched_skills)

\* Three dimensions with equal contributions inserted in ascending id order and
\* four matched skills: the two larger ids are named, larger first, and three
\* skills listed
C22_Witness ==
    /\ called
    /\ arg.breakdown = << <<"cloud_architecture", 30>>, <<"networking_protocols", 30>>,
                          <<"security_technologies", 30>> >>
    /\ Len(arg.matched_skills) = 4
    /\ Len(arg.dimension_labels) = 3
    /\ ret.sentence1 = <<"Scored ", 90, "/100 with strongest alignment in ",
                         "Security Technologies", " and ", "Networking & Protocols",
                         " (matched: ", "aws", ", ", "k8s", ", ", "sql", ")", ".">>

\* C23: the Phase-1 shortlist is in non-increasing order of Phase-1 score, has
\* no repeated resume and at most 25 entries, and, whenever at least 5 resumes
\* pass the filters, holds only resumes with score >= min_score and none
\* below a positive minimum experience.
C23_ShortlistInvariants ==
    called =>
        LET passing == {r \in arg.all_resumes :
                          /\ calculate_traditional_score(r) >= arg.min_score
                          /\ ~(arg.min_experience_years > 0
                               /\ ResumeRow(r).experience_years < arg.min_experience_years)}
        IN  /\ \A i, j \in DOMAIN ret :
                  i < j => /\ calculate_traditional_score(ret[i])
                                >= calculate_traditional_score(ret[j])
                           /\ ret[i] # ret[j]
            /\ Len(ret) <= 25
            /\ SeqToSet(ret) \subseteq arg.all_resumes
            /\ Cardinality(passing) >= 5 => SeqToSet(ret) \subseteq passing

\* More than 25 resumes passed the filters, some were filtered out, and the
\* shortlist was cut to 25
C23_Witness ==
    /\ called
    /\ arg.min_score = 0
    /\ arg.min_experience_years = 0
    /\ Cardinality(arg.all_resumes) > 25
    /\ Len(ret) = 25
    /\ ret[1] # 1

\* Resumes of the request for which an evidence call was requested so far
EvidenceCallsOf(q) ==
    {r \in ResumeIds :
        \/ task[q][r] \in {"waiting", "calling", "failed"}
        \/ task[q][r] = "done" /\ ~item[q][r].cached}

\* C24: an evidence call for resume r is requested only while the request is
\* in its scoring phase (Phase 1 and the cache lookup done), only for a
\* shortlisted r that had no current-version row under the structure hash at
\* the lookup; a cache hit takes no slot; a request makes at most 25 calls,
\* none for the cached part of its shortlist.
C24_CallsOnlyForUncachedShortlist ==
    [][\A q \in Requests :
          /\ (pc[q] = "lookup" /\ pc'[q] = "scoring") =>
                DOMAIN req'[q].cached_map =
                    {r \in SeqToSet(req[q].prelim) :
                        \E m \in match_results :
                            /\ m.jd_hash = req[q].jd_structure_hash
                            /\ m.resume_id = r
                            /\ m.factor_breakdown.engine_version = JD_MATCH_ENGINE_VERSION}
          /\ \A r \in ResumeIds :
                /\ (task[q][r] \in {"none", "pending"}
                      /\ task'[q][r] \in {"waiting", "calling", "failed"}) =>
                        /\ pc[q] = "scoring"
                        /\ r \in SeqToSet(req[q].prelim)
                        /\ r \notin DOMAIN req[q].cached_map
                /\ (task[q][r] = "pending" /\ task'[q][r] = "done") =>
                        /\ r \in DOMAIN req[q].cached_map
                        /\ item'[q][r].cached
                        /\ semaphore'[q] = semaphore[q]
                        /\ waiters'[q] = waiters[q]
          /\ EvidenceCallsOf(q) \subseteq SeqToSet(req[q].prelim) \ DOMAIN req[q].cached_map
          /\ Cardinality(EvidenceCallsOf(q)) <= 25]_vars

\* A request whose shortlist was fully cached by an earlier request finished
\* without an evidence call and with all slots untouched
C24_Witness ==
    \E q \in Requests :
        /\ pc[q] = "done"
        /\ Len(req[q].prelim) >= 2
        /\ DOMAIN req[q].cached_map = SeqToSet(req[q].prelim)
        /\ \A r \in SeqToSet(req[q].prelim) : task[q][r] = "done" /\ item[q][r].cached
        /\ EvidenceCallsOf(q) = {}
        /\ Len(response[q].results) = Len(req[q].prelim)

\* No score_one task of the request is created, queued or in its call
TasksTerminated(q) ==
    /\ \A r \in SeqToSet(req[q].prelim) : task[q][r] \in {"done", "failed"}
    /\ \A r \in ResumeIds : task[q][r] \in {"none", "done", "failed"}
    /\ waiters[q] = <<>>

\* C25: when every evidence call eventually returns or raises, no task waits
\* for a slot forever and every task of the shortlist terminates (returns or
\* raises), so that every request that reached scoring assembles its batch;
\* when the batch is assembled all three slots are free and no task is queued.
C25_ScoringTerminates ==
    /\ <>[](\A q \in Requests :
              /\ pc[q] \in {"off", "done", "error"}
              /\ pc[q] = "done" => TasksTerminated(q))
    /\ \A q \in Requests : (pc[q] = "scoring") ~> (pc[q] = "done")
    /\ [](\A q \in Requests :
            (pc[q] = "done") => (TasksTerminated(q) /\ semaphore[q] = SemaphoreSlots))

\* A batch was assembled after a task had queued for a slot, with a raised
\* call among its tasks
C25_Witness ==
    \E q \in Requests :
        /\ pc[q] = "done"
        /\ Len(req[q].prelim) > SemaphoreSlots
        /\ DOMAIN req[q].cached_map = {}
        /\ \E r \in SeqToSet(req[q].prelim) : task[q][r] = "failed"
        /\ \E r \in SeqToSet(req[q].prelim) : task[q][r] = "done"
        /\ semaphore[q] = SemaphoreSlots

\* Evidence calls in flight in the whole process
OutstandingCalls == {<<q, r>> \in Requests \X ResumeIds : task[q][r] = "calling"}

\* C26: across all requests running concurrently, the number of evidence
\* calls in flight never exceeds 3.
C26_GlobalCallBound == Cardinality(OutstandingCalls) <= SemaphoreSlots

\* Requests that ended in the handler of line 990 after their structure
\* extraction raised (they had passed the insert of the jd_analysis row)
FailedAtExtraction ==
    {q \in Requests :
        /\ pc[q] = "error"
        /\ req[q].selected_dim_ids = <<>>
        /\ \E row \in jd_analysis : row.jd_hash = req[q].jd_hash}

\* C27: a request that fails at the structure extraction leaves the persisted
\* state as it was before the request: when every request that ran has failed
\* there, jd_analysis is as empty as it started and match_results holds
\* nothing but the rows it started with.
C27_FailedExtractionPersistsNothing ==
    (\A q \in Requests : pc[q] = "off" \/ q \in FailedAtExtraction) =>
        /\ jd_analysis = {}
        /\ match_results \subseteq {StaleRow, SeedRow}

\* C28: when two requests for the same never-seen JD text have both looked
\* for its jd_analysis row before either inserted it, neither fails because
\* of the other: each leaves its insert step towards the extraction, and one
\* row with that jd_hash exists afterwards.
C28_DuplicateInsertTolerated ==
    [][\A q \in Requests :
          (pc[q] = "insert_jd" /\ pc'[q] # "insert_jd") =>
              /\ pc'[q] = "extract"
              /\ response'[q] = NoResponse
              /\ Cardinality({row \in jd_analysis' : row.jd_hash = req[q].jd_hash}) = 1]_vars

\* C29: a cache write that fails for one resume's row does not keep the other
\* new rows of the request from being persisted: once the request has
\* persisted, every newly scored resume whose own (structure hash, resume id)
\* key was free has a row.
C29_ConflictLosesOnlyItsRow ==
    [][\A q \in Requests :
          (pc[q] = "scoring" /\ pc'[q] = "done") =>
              \A i \in DOMAIN ToPersist(q) :
                  LET r == ToPersist(q)[i].resume_id
                      h == req[q].jd_structure_hash
                  IN  (~\E m \in match_results : m.jd_hash = h /\ m.resume_id = r) =>
                          \E m \in match_results' : m.jd_hash = h /\ m.resume_id = r]_vars

\* C30: for the weights of 1 to 5 distinct dimensions and any confidence
\* labels, the sum of the contributions is between 0 and 91, and it is 91 for
\* 3 dimensions all "high"; score_total returns the sum unchanged, so no total
\* is above 91.
C30_TotalAtMost91 ==
    called =>
        LET sum == SumValues(ret.breakdown)
            ids == SeqToSet(arg.dimension_ids)
        IN  /\ sum \in 0..91
            /\ ret.total = sum
            /\ (/\ Len(arg.dimension_ids) = 3
                /\ DOMAIN arg.confidence_by_dimension = ids
                /\ \A d \in ids : arg.confidence_by_dimension[d] = "high") => sum = 91

\* Three dimensions, all "high": contributions 31, 30 and 30
C30_Witness ==
    /\ called
    /\ Len(arg.dimension_ids) = 3
    /\ \A d \in SeqToSet(arg.dimension_ids) :
          d \in DOMAIN arg.confidence_by_dimension /\ arg.confidence_by_dimension[d] = "high"
    /\ {ret.breakdown[d] : d \in DOMAIN ret.breakdown} = {30, 31}
    /\ ret.total = 91

====
